---- MODULE Spec2Model ----
(***************************************************************************)
(* CoralVM (src/main.rs): a virtual CPU owning a flat byte memory cut into *)
(* typed regions, a four-register file with a program counter, three       *)
(* flags, an 8-byte instruction codec and a fetch-decode-execute loop.     *)
(*                                                                         *)
(* Three specifications share the state:                                   *)
(*   Spec       construction, append calls and the run loop, step by step  *)
(*   SpecExec   direct calls of CPU::execute on a constructed CPU          *)
(*   SpecCodec  direct calls of Instruction::parse and ::as_bytes          *)
(***************************************************************************)
EXTENDS Integers, Sequences, FiniteSets, TLC

VARIABLES
    memory,     \* Memory.memory : Vec<u8>, a function 0..len-1 -> 0..255
    regions,    \* Memory.regions: sequence of <<kind, start, end>>
    registers,  \* Registers: [r1, r2, r3, r4, rip], all i32
    flags,      \* Flags: [zf, of, tf]
    state,      \* position of the caller / of run's loop
    iter,       \* iterations the for loop of run still has to make
    bytes,      \* the Vec<u8> fetch handed to decode
    instr,      \* the Option<Instruction> decode handed to execute
    op,         \* the operation performed last
    arg,        \* its argument
    pre,        \* registers, flags and memory as they were before it
    ret,        \* what it returned
    appended,   \* the instructions append was called with, in call order
    runs,       \* the number of run calls made
    nexec,      \* instructions executed successfully by the current run
    calls       \* direct calls of execute made (SpecExec)

vars == <<memory, regions, registers, flags, state, iter, bytes, instr,
          op, arg, pre, ret, appended, runs, nexec, calls>>

(***************************************************************************)
(* Bounds of the model.                                                    *)
(***************************************************************************)
MaxAppends == 2     \* append calls per CPU
MaxRuns == 1        \* run calls per CPU
MaxLen == 8         \* longest of the byte sequences enumerated for parse
MaxCalls == 2       \* direct execute calls per CPU
MaxRegions == 3     \* longest region list handed to get_range

(***************************************************************************)
(* Program constants.                                                      *)
(***************************************************************************)
STEP == 8           \* step_by(8), the instruction width

(***************************************************************************)
(* A u32 is kept as its two 16-bit halves, value hi * 65536 + lo, so that  *)
(* all 32 bits are there: the integers of the model end at 2^31 - 1.       *)
(***************************************************************************)
U32(hi, lo) == [hi |-> hi, lo |-> lo]
u32(n) == U32(n \div 65536, n % 65536)
U32_MAX == U32(65535, 65535)

None == <<>>
Some(x) == <<x>>

(***************************************************************************)
(* Results: Ok(()) and Err(String). The message is kept as the format      *)
(* string's text followed by the values formatted into it.                 *)
(***************************************************************************)
Ok == [ok |-> TRUE, msg |-> <<>>]
Err(m) == [ok |-> FALSE, msg |-> m]
Panicked == [ok |-> FALSE, msg |-> <<"panic">>]

(***************************************************************************)
(* fn clamp(n, max): n is a usize of the model, max is u32::MAX.           *)
(***************************************************************************)
clamp(n, max) ==
    IF \/ n \div 65536 > max.hi
       \/ n \div 65536 = max.hi /\ n % 65536 > max.lo
    THEN max.hi * 65536 + max.lo
    ELSE n

unwrap_or(o, d) == IF o = None THEN d ELSE o[1]

(***************************************************************************)
(* Memory::new: a zero-filled buffer of the clamped size; the regions      *)
(* given, or one Data region over the (unclamped) size.                    *)
(***************************************************************************)
Memory_new(size, regs) ==
    [memory  |-> [a \in 0..(clamp(unwrap_or(size, 0), U32_MAX) - 1) |-> 0],
     regions |-> unwrap_or(regs, << <<"Data", 0, unwrap_or(size, 0)>> >>)]

(***************************************************************************)
(* Memory::get_range: the (start, end) pairs of the regions of one kind,   *)
(* in declaration order.                                                   *)
(***************************************************************************)
RECURSIVE get_range_unfiltered(_, _)
get_range_unfiltered(rs, stype) ==
    IF rs = <<>> THEN <<>>
    ELSE << <<Head(rs)[2], Head(rs)[3]>> >> \o get_range_unfiltered(Tail(rs), stype)

RECURSIVE get_range(_, _)
get_range(rs, stype) ==
    IF rs = <<>> THEN <<>>
    ELSE (IF Head(rs)[1] = stype THEN << <<Head(rs)[2], Head(rs)[3]>> >> ELSE <<>>)
         \o get_range(Tail(rs), stype)

(***************************************************************************)
(* Registers::default and Flags::default.                                  *)
(***************************************************************************)
Registers_default == [r1 |-> 0, r2 |-> 0, r3 |-> 0, r4 |-> 0, rip |-> 0]
Flags_default == [zf |-> FALSE, of |-> FALSE, tf |-> FALSE]

(***************************************************************************)
(* Instruction::new                                                        *)
(***************************************************************************)
Instruction_new(mnemonic, modifier, register_from, register_to, data) ==
    [mnemonic |-> mnemonic, modifier |-> modifier,
     register_from |-> register_from, register_to |-> register_to,
     data |-> data]

(***************************************************************************)
(* u32::to_be_bytes and u32::from_be_bytes.                                *)
(***************************************************************************)
to_le_bytes(d) == <<d.lo % 256, d.lo \div 256, d.hi % 256, d.hi \div 256>>

to_be_bytes(d) == <<d.hi \div 256, d.hi % 256, d.lo \div 256, d.lo % 256>>

from_be_bytes(b) == U32(b[1] * 256 + b[2], b[3] * 256 + b[4])

(***************************************************************************)
(* Instruction::as_bytes: the four field bytes, then data big-endian.      *)
(***************************************************************************)
as_bytes(self) ==
    <<self.mnemonic, self.modifier, self.register_from, self.register_to>>
    \o to_be_bytes(self.data)

(***************************************************************************)
(* Instruction::parse. The loop runs i over 0..n, n the length the vector  *)
(* had on entry; each pass reads bytes[0] into the field i selects and     *)
(* then drops the first byte, and the pass i = 4 converts what is left to  *)
(* a [u8; 4] (which fails unless exactly four bytes are left) and breaks.  *)
(***************************************************************************)
RECURSIVE parse_loop(_, _, _, _)
parse_loop(i, n, bs, x) ==
    IF i >= n THEN Some(x)
    ELSE LET x1 == CASE i = 0 -> [x EXCEPT !.mnemonic = bs[1]]
                     [] i = 1 -> [x EXCEPT !.modifier = bs[1]]
                     [] i = 2 -> [x EXCEPT !.register_from = bs[1]]
                     [] i = 3 -> [x EXCEPT !.register_to = bs[1]]
                     [] OTHER -> x
         IN  IF i = 4
             THEN IF Len(bs) = 4
                  THEN Some([x1 EXCEPT !.data = from_be_bytes(bs)])
                  ELSE None
             ELSE parse_loop(i + 1, n, Tail(bs), x1)

parse_no_length_check(bs) ==
    parse_loop(0, Len(bs), bs, Instruction_new(0, 0, 0, 0, u32(0)))

parse(bs) ==
    IF Len(bs) # 8 THEN None
    ELSE parse_loop(0, Len(bs), bs, Instruction_new(0, 0, 0, 0, u32(0)))

(***************************************************************************)
(* CPU::decode: Some(Instruction::parse(bytes)?)                           *)
(***************************************************************************)
decode(bs) == IF parse(bs) = None THEN None ELSE Some(parse(bs)[1])

(***************************************************************************)
(* `self.data as i32`: the u32 reinterpreted as a signed 32-bit value.     *)
(***************************************************************************)
as_i32_saturating(d) ==
    IF d.hi < 32768 THEN d.hi * 65536 + d.lo ELSE 2147483647

as_i32(d) ==
    IF d.hi < 32768 THEN d.hi * 65536 + d.lo ELSE (d.hi - 65536) * 65536 + d.lo

(***************************************************************************)
(* Instruction::mov. The register is written before register_from is       *)
(* looked at, so the reserved-byte error returns with the register set.    *)
(* Gives the registers as the call leaves them and what it returned.       *)
(***************************************************************************)
mov_modifier_checked_last(self, regs) ==
    IF self.register_to \notin 0..3
    THEN [registers |-> regs,
          result |-> Err(<<"invalid register", self.register_to, regs.rip + 3>>)]
    ELSE IF self.modifier # 0
    THEN [registers |-> regs,
          result |-> Err(<<"invalid modifier", self.modifier, regs.rip + 1>>)]
    ELSE LET written ==
                 CASE self.register_to = 0 -> [regs EXCEPT !.r1 = as_i32(self.data)]
                   [] self.register_to = 1 -> [regs EXCEPT !.r2 = as_i32(self.data)]
                   [] self.register_to = 2 -> [regs EXCEPT !.r3 = as_i32(self.data)]
                   [] self.register_to = 3 -> [regs EXCEPT !.r4 = as_i32(self.data)]
         IN  IF self.register_from # 0
             THEN [registers |-> written,
                   result |-> Err(<<"non-zero value for unusable byte", regs.rip + 2>>)]
             ELSE [registers |-> written, result |-> Ok]

mov_register_bound_off_by_one(self, regs) ==
    IF self.modifier = 0
    THEN IF self.register_to \in 0..4
         THEN LET written ==
                      CASE self.register_to = 0 -> [regs EXCEPT !.r1 = as_i32(self.data)]
                        [] self.register_to = 1 -> [regs EXCEPT !.r2 = as_i32(self.data)]
                        [] self.register_to = 2 -> [regs EXCEPT !.r3 = as_i32(self.data)]
                        [] OTHER                -> [regs EXCEPT !.r4 = as_i32(self.data)]
              IN  IF self.register_from # 0
                  THEN [registers |-> written,
                        result |-> Err(<<"non-zero value for unusable byte", regs.rip + 2>>)]
                  ELSE [registers |-> written, result |-> Ok]
         ELSE [registers |-> regs,
               result |-> Err(<<"invalid register", self.register_to, regs.rip + 3>>)]
    ELSE [registers |-> regs,
          result |-> Err(<<"invalid modifier", self.modifier, regs.rip + 1>>)]

mov(self, regs) ==
    IF self.modifier = 0
    THEN IF self.register_to \in 0..3
         THEN LET written ==
                      CASE self.register_to = 0 -> [regs EXCEPT !.r1 = as_i32(self.data)]
                        [] self.register_to = 1 -> [regs EXCEPT !.r2 = as_i32(self.data)]
                        [] self.register_to = 2 -> [regs EXCEPT !.r3 = as_i32(self.data)]
                        [] self.register_to = 3 -> [regs EXCEPT !.r4 = as_i32(self.data)]
              IN  IF self.register_from # 0
                  THEN [registers |-> written,
                        result |-> Err(<<"non-zero value for unusable byte", regs.rip + 2>>)]
                  ELSE [registers |-> written, result |-> Ok]
         ELSE [registers |-> regs,
               result |-> Err(<<"invalid register", self.register_to, regs.rip + 3>>)]
    ELSE [registers |-> regs,
          result |-> Err(<<"invalid modifier", self.modifier, regs.rip + 1>>)]

(***************************************************************************)
(* CPU::execute: mnemonic 0x1 is mov, any other is an error carrying the   *)
(* mnemonic and the program counter.                                       *)
(***************************************************************************)
execute_zero_is_nop(instruction, regs) ==
    IF instruction.mnemonic = 1 THEN mov(instruction, regs)
    ELSE IF instruction.mnemonic = 0 THEN [registers |-> regs, result |-> Ok]
    ELSE [registers |-> regs,
          result |-> Err(<<"invalid mnemonic", instruction.mnemonic, regs.rip>>)]

execute_reports_next_address(instruction, regs) ==
    IF instruction.mnemonic = 1 THEN mov(instruction, regs)
    ELSE [registers |-> regs,
          result |-> Err(<<"invalid mnemonic", instruction.mnemonic, regs.rip + STEP>>)]

execute(instruction, regs) ==
    IF instruction.mnemonic = 1 THEN mov(instruction, regs)
    ELSE [registers |-> regs,
          result |-> Err(<<"invalid mnemonic", instruction.mnemonic, regs.rip>>)]

(***************************************************************************)
(* CPU::fetch: memory[start .. start + 8]; slicing past the end of the     *)
(* vector panics.                                                          *)
(***************************************************************************)
Size(mem) == Cardinality(DOMAIN mem)

fetch_in_bounds(mem, start) == start >= 0 /\ start + STEP <= Size(mem)

fetch_short(mem, start) == [k \in 1..(STEP - 1) |-> mem[start + k - 1]]

fetch(mem, start) == [k \in 1..STEP |-> mem[start + k - 1]]

(***************************************************************************)
(* (a..b).step_by(8): how many values the iterator yields.                 *)
(***************************************************************************)
step_count_floor(a, b) == IF b <= a THEN 0 ELSE (b - a) \div STEP

step_count(a, b) == IF b <= a THEN 0 ELSE (b - a + STEP - 1) \div STEP

(***************************************************************************)
(* The scan of CPU::append from address `byte`: the first slot whose first *)
(* byte is 0 takes the eight encoded bytes, written one by one. Indexing   *)
(* past the end of memory panics, after the bytes written before it.       *)
(***************************************************************************)
RECURSIVE append_scan(_, _, _, _)
append_scan(mem, byte, end, enc) ==
    IF byte >= end THEN [memory |-> mem, outcome |-> "full"]
    ELSE IF byte >= Size(mem) THEN [memory |-> mem, outcome |-> "panic"]
    ELSE IF mem[byte] = 0
    THEN LET n == IF Size(mem) - byte < STEP THEN Size(mem) - byte ELSE STEP
         IN  [memory  |-> [a \in DOMAIN mem |->
                              IF a >= byte /\ a < byte + n
                              THEN enc[a - byte + 1] ELSE mem[a]],
              outcome |-> IF n = STEP THEN "written" ELSE "panic"]
    ELSE append_scan(mem, byte + STEP, end, enc)

(***************************************************************************)
(* CPU::append on a memory: range[0] panics when no region is Code.        *)
(***************************************************************************)
append_overwrites_when_full(mem, rs, instruction) ==
    LET range == get_range(rs, "Code")
        r == append_scan(mem, range[1][1], range[1][2], as_bytes(instruction))
        first == range[1][1]
    IN  IF range = <<>> THEN [memory |-> mem, outcome |-> "panic"]
        ELSE IF r.outcome = "full" /\ first < range[1][2]
                  /\ first + STEP <= Size(mem)
        THEN [memory  |-> [a \in DOMAIN mem |->
                              IF a >= first /\ a < first + STEP
                              THEN as_bytes(instruction)[a - first + 1]
                              ELSE mem[a]],
              outcome |-> "written"]
        ELSE r

append_ignores_missing_region(mem, rs, instruction) ==
    LET range == get_range(rs, "Code")
    IN  IF range = <<>> THEN [memory |-> mem, outcome |-> "full"]
        ELSE append_scan(mem, range[1][1], range[1][2], as_bytes(instruction))

append(mem, rs, instruction) ==
    LET range == get_range(rs, "Code")
    IN  IF range = <<>> THEN [memory |-> mem, outcome |-> "panic"]
        ELSE append_scan(mem, range[1][1], range[1][2], as_bytes(instruction))

(***************************************************************************)
(* The CPUs constructed: CPU::new(size, regions). The first is main's.     *)
(***************************************************************************)
MAIN_SIZE == 1504

MainConfig ==
    <<Some(MAIN_SIZE), Some(<< <<"Code", 0, MAIN_SIZE \div 3>>,
                               <<"Data", MAIN_SIZE \div 3, MAIN_SIZE>> >>)>>

Configs ==
    { MainConfig,
      <<Some(24), Some(<< <<"Code", 0, 16>>, <<"Data", 16, 24>> >>)>>,
      <<Some(16), Some(<< <<"Code", 0, 8>>, <<"Data", 8, 16>> >>)>>,
      <<Some(24), Some(<< <<"Code", 0, 12>>, <<"Data", 12, 24>> >>)>>,
      <<Some(16), None>>,
      <<None, None>>,
      <<Some(32), Some(<< <<"Data", 0, 8>>, <<"Code", 8, 24>>, <<"Code", 24, 32>> >>)>>,
      <<Some(12), Some(<< <<"Code", 0, 12>> >>)>>,
      <<Some(8),  Some(<< <<"Code", 4, 4>> >>)>>,
      <<Some(8),  Some(<< <<"Code", 0, 16>> >>)>> }

(***************************************************************************)
(* The instructions the callers of append use.                             *)
(***************************************************************************)
MainInstruction == Instruction_new(1, 0, 0, 1, u32(1337))

ProgramInstructions ==
    { MainInstruction,
      Instruction_new(1, 0, 0, 3, U32_MAX),
      Instruction_new(1, 0, 1, 0, u32(7)),
      Instruction_new(1, 0, 0, 4, u32(5)),
      Instruction_new(1, 1, 0, 2, u32(5)),
      Instruction_new(2, 1, 1, 4, u32(9)),
      Instruction_new(0, 0, 0, 2, u32(3)),
      Instruction_new(255, 255, 255, 255, U32(32768, 0)) }

(***************************************************************************)
(* CPU::new                                                                *)
(***************************************************************************)
Snapshot == [registers |-> registers, flags |-> flags, memory |-> memory]

Init ==
    \E c \in Configs :
        /\ memory = Memory_new(c[1], c[2]).memory
        /\ regions = Memory_new(c[1], c[2]).regions
        /\ registers = Registers_default
        /\ flags = Flags_default
        /\ state = "Idle"
        /\ iter = 0
        /\ bytes = <<>>
        /\ instr = None
        /\ op = "new"
        /\ arg = c
        /\ pre = [registers |-> Registers_default, flags |-> Flags_default,
                  memory |-> Memory_new(c[1], c[2]).memory]
        /\ ret = Ok
        /\ appended = <<>>
        /\ runs = 0
        /\ nexec = 0
        /\ calls = 0

Callable == state \in {"Idle", "Halted"}

(***************************************************************************)
(* A call of CPU::append.                                                  *)
(***************************************************************************)
AppendCall(instruction) ==
    /\ Callable
    /\ Len(appended) < MaxAppends
    /\ LET r == append(memory, regions, instruction)
       IN  /\ memory' = r.memory
           /\ state' = IF r.outcome = "panic" THEN "Aborted" ELSE "Idle"
           /\ ret' = IF r.outcome = "panic" THEN Panicked ELSE Ok
    /\ op' = "append"
    /\ arg' = instruction
    /\ pre' = Snapshot
    /\ appended' = Append(appended, instruction)
    /\ UNCHANGED <<regions, registers, flags, iter, bytes, instr, runs, nexec, calls>>

(***************************************************************************)
(* CPU::run, entry: the bounds of the first Code region fix the number of  *)
(* iterations; range[0] panics when no region is Code.                     *)
(***************************************************************************)
RunCall ==
    /\ Callable
    /\ runs < MaxRuns
    /\ LET range == get_range(regions, "Code")
       IN  IF range = <<>>
           THEN /\ state' = "Aborted"
                /\ ret' = Panicked
                /\ iter' = 0
           ELSE /\ state' = "Fetching"
                /\ ret' = ret
                /\ iter' = step_count(range[1][1], range[1][2])
    /\ op' = "run"
    /\ arg' = None
    /\ pre' = Snapshot
    /\ runs' = runs + 1
    /\ nexec' = 0
    /\ UNCHANGED <<memory, regions, registers, flags, bytes, instr, appended, calls>>

(***************************************************************************)
(* CPU::run, one iteration: self.fetch(self.registers.rip)                 *)
(***************************************************************************)
RunFetch ==
    /\ state = "Fetching"
    /\ iter > 0
    /\ IF fetch_in_bounds(memory, registers.rip)
       THEN /\ bytes' = fetch(memory, registers.rip)
            /\ state' = "Decoding"
            /\ ret' = ret
       ELSE /\ bytes' = <<>>
            /\ state' = "Aborted"
            /\ ret' = Panicked
    /\ op' = "fetch"
    /\ arg' = registers.rip
    /\ pre' = Snapshot
    /\ UNCHANGED <<memory, regions, registers, flags, iter, instr, appended,
                   runs, nexec, calls>>

(***************************************************************************)
(* CPU::run, one iteration: CPU::decode(bytes); None ends the run with the *)
(* decode error.                                                           *)
(***************************************************************************)
RunDecode ==
    /\ state = "Decoding"
    /\ instr' = decode(bytes)
    /\ IF decode(bytes) = None
       THEN /\ state' = "Halted"
            /\ ret' = Err(<<"instruction couldn't be decoded">>)
       ELSE /\ state' = "Executing"
            /\ ret' = ret
    /\ op' = "decode"
    /\ arg' = bytes
    /\ pre' = Snapshot
    /\ UNCHANGED <<memory, regions, registers, flags, iter, bytes, appended,
                   runs, nexec, calls>>

(***************************************************************************)
(* CPU::run, one iteration: self.execute(i)?; self.registers.rip += 8      *)
(***************************************************************************)
RunExecute_sets_zero_flag ==
    /\ state = "Executing"
    /\ LET r == execute(instr[1], registers)
       IN  IF r.result.ok
           THEN /\ registers' = [r.registers EXCEPT !.rip = @ + STEP]
                /\ state' = "Fetching"
                /\ ret' = ret
                /\ iter' = iter - 1
                /\ nexec' = nexec + 1
           ELSE /\ registers' = r.registers
                /\ state' = "Halted"
                /\ ret' = r.result
                /\ iter' = iter
                /\ nexec' = nexec
    /\ op' = "execute"
    /\ arg' = instr[1]
    /\ pre' = Snapshot
    /\ flags' = [flags EXCEPT !.zf = (execute(instr[1], registers).result.ok)]
    /\ UNCHANGED <<memory, regions, bytes, instr, appended, runs, calls>>

RunExecute ==
    /\ state = "Executing"
    /\ LET r == execute(instr[1], registers)
       IN  IF r.result.ok
           THEN /\ registers' = [r.registers EXCEPT !.rip = @ + STEP]
                /\ state' = "Fetching"
                /\ ret' = ret
                /\ iter' = iter - 1
                /\ nexec' = nexec + 1
           ELSE /\ registers' = r.registers
                /\ state' = "Halted"
                /\ ret' = r.result
                /\ iter' = iter
                /\ nexec' = nexec
    /\ op' = "execute"
    /\ arg' = instr[1]
    /\ pre' = Snapshot
    /\ UNCHANGED <<memory, regions, flags, bytes, instr, appended, runs, calls>>

(***************************************************************************)
(* CPU::run, the loop is exhausted: Ok(())                                 *)
(***************************************************************************)
RunFinish ==
    /\ state = "Fetching"
    /\ iter = 0
    /\ state' = "Halted"
    /\ ret' = Ok
    /\ op' = "finish"
    /\ arg' = None
    /\ pre' = Snapshot
    /\ UNCHANGED <<memory, regions, registers, flags, iter, bytes, instr,
                   appended, runs, nexec, calls>>

Next ==
    \/ \E i \in ProgramInstructions : AppendCall(i)
    \/ RunCall
    \/ RunFetch
    \/ RunDecode
    \/ RunExecute
    \/ RunFinish

Spec == Init /\ [][Next]_vars

(***************************************************************************)
(* SpecExec: CPU::execute called directly, with instructions of every      *)
(* shape, on a CPU just constructed and on what earlier calls left.        *)
(***************************************************************************)
ExecConfigs ==
    { <<Some(24), Some(<< <<"Code", 0, 16>>, <<"Data", 16, 24>> >>)>>,
      <<Some(16), None>> }

ExecInstructions ==
    { Instruction_new(mn, md, rf, rt, d) :
        mn \in {0, 1, 2}, md \in {0, 1}, rf \in {0, 255},
        rt \in {0, 1, 2, 3, 4, 255},
        d \in {u32(1337), U32(32768, 0), U32_MAX} }

InitExec == Init /\ arg \in ExecConfigs

ExecuteCall(instruction) ==
    /\ state = "Idle"
    /\ calls < MaxCalls
    /\ calls' = calls + 1
    /\ registers' = execute(instruction, registers).registers
    /\ ret' = execute(instruction, registers).result
    /\ op' = "execute"
    /\ arg' = instruction
    /\ pre' = Snapshot
    /\ UNCHANGED <<memory, regions, flags, state, iter, bytes, instr,
                   appended, runs, nexec>>

NextExec == \E i \in ExecInstructions : ExecuteCall(i)

SpecExec == InitExec /\ [][NextExec]_vars

(***************************************************************************)
(* SpecCodec: Instruction::parse, CPU::decode and Instruction::as_bytes    *)
(* applied to an input. They are associated functions and touch no CPU, so *)
(* the initial states hold the input: a byte sequence in `bytes`, or an    *)
(* instruction in `instr`.                                                 *)
(***************************************************************************)
ByteValues == {0, 1, 255}

RECURSIVE SeqsOfLen(_)
SeqsOfLen(n) ==
    IF n = 0 THEN {<<>>}
    ELSE {<<b>> \o t : b \in ByteValues, t \in SeqsOfLen(n - 1)}

ByteSeqs ==
    UNION {SeqsOfLen(n) : n \in 0..MaxLen}
    \cup {as_bytes(i) : i \in ProgramInstructions}
    \cup {as_bytes(i) \o <<0>> : i \in ProgramInstructions}
    \cup {as_bytes(i) \o as_bytes(i) : i \in ProgramInstructions}
    \cup {<<1, 2, 3, 4, 5, 6, 7, 8>>, <<1, 2, 3, 4, 5, 6, 7, 8, 9>>}

CodecInstructions ==
    { Instruction_new(mn, md, rf, rt, d) :
        mn \in ByteValues, md \in ByteValues, rf \in ByteValues,
        rt \in ByteValues,
        d \in {u32(0), u32(1337), U32(258, 772), U32(32768, 0), U32_MAX} }

InitCodec ==
    /\ memory = Memory_new(None, None).memory
    /\ regions = Memory_new(None, None).regions
    /\ registers = Registers_default
    /\ flags = Flags_default
    /\ state = "Idle"
    /\ iter = 0
    /\ \/ bytes \in ByteSeqs /\ instr = None
       \/ bytes = <<>> /\ instr \in {Some(i) : i \in CodecInstructions}
    /\ op = "new"
    /\ arg = <<None, None>>
    /\ pre = [registers |-> Registers_default, flags |-> Flags_default,
              memory |-> Memory_new(None, None).memory]
    /\ ret = Ok
    /\ appended = <<>>
    /\ runs = 0
    /\ nexec = 0
    /\ calls = 0

ParseCall ==
    /\ op = "new"
    /\ instr = None
    /\ ret' = parse(bytes)
    /\ op' = "parse"
    /\ arg' = bytes
    /\ pre' = Snapshot
    /\ UNCHANGED <<memory, regions, registers, flags, state, iter, bytes,
                   instr, appended, runs, nexec, calls>>

DecodeCall ==
    /\ op = "new"
    /\ instr = None
    /\ ret' = decode(bytes)
    /\ op' = "decode"
    /\ arg' = bytes
    /\ pre' = Snapshot
    /\ UNCHANGED <<memory, regions, registers, flags, state, iter, bytes,
                   instr, appended, runs, nexec, calls>>

AsBytesCall ==
    /\ op = "new"
    /\ instr # None
    /\ ret' = as_bytes(instr[1])
    /\ op' = "as_bytes"
    /\ arg' = instr[1]
    /\ pre' = Snapshot
    /\ UNCHANGED <<memory, regions, registers, flags, state, iter, bytes,
                   instr, appended, runs, nexec, calls>>

NextCodec ==
    \/ ParseCall
    \/ DecodeCall
    \/ AsBytesCall

SpecCodec == InitCodec /\ [][NextCodec]_vars

(***************************************************************************)
(* SpecRange: Memory::get_range called with each kind on memories built    *)
(* from every region list of up to MaxRegions regions; Memory::new takes   *)
(* any list, overlapping or not.                                           *)
(***************************************************************************)
RangeRegions ==
    { <<k, b[1], b[2]>> : k \in {"Code", "Data"},
                          b \in { <<0, 8>>, <<8, 16>>, <<0, 16>> } }

RECURSIVE RegionListsOfLen(_)
RegionListsOfLen(n) ==
    IF n = 0 THEN {<<>>}
    ELSE {<<r>> \o t : r \in RangeRegions, t \in RegionListsOfLen(n - 1)}

RegionLists == UNION {RegionListsOfLen(n) : n \in 0..MaxRegions}

InitRange ==
    \E rs \in RegionLists :
        /\ memory = Memory_new(Some(16), Some(rs)).memory
        /\ regions = Memory_new(Some(16), Some(rs)).regions
        /\ registers = Registers_default
        /\ flags = Flags_default
        /\ state = "Idle"
        /\ iter = 0
        /\ bytes = <<>>
        /\ instr = None
        /\ op = "new"
        /\ arg = <<Some(16), Some(rs)>>
        /\ pre = [registers |-> Registers_default, flags |-> Flags_default,
                  memory |-> Memory_new(Some(16), Some(rs)).memory]
        /\ ret = Ok
        /\ appended = <<>>
        /\ runs = 0
        /\ nexec = 0
        /\ calls = 0

GetRangeCall(stype) ==
    /\ state = "Idle"
    /\ ret' = get_range(regions, stype)
    /\ op' = "get_range"
    /\ arg' = stype
    /\ pre' = Snapshot
    /\ UNCHANGED <<memory, regions, registers, flags, state, iter, bytes,
                   instr, appended, runs, nexec, calls>>

NextRange == \E stype \in {"Code", "Data"} : GetRangeCall(stype)

SpecRange == InitRange /\ [][NextRange]_vars

(***************************************************************************)
(* What the claims speak of.                                               *)
(***************************************************************************)
Executed == op = "execute"

IsMov(i) == i.mnemonic = 1

RegistersKept == registers = pre.registers

ErrorKind(r) == IF r.ok \/ r.msg = <<>> THEN "none" ELSE r.msg[1]

\* data as the claims read it: data below 2^31, data - 2^32 from there on
Signed(d) ==
    IF d.hi < 32768 THEN d.hi * 65536 + d.lo
    ELSE 0 - ((65535 - d.hi) * 65536 + (65535 - d.lo)) - 1

FirstCode == get_range(regions, "Code")[1]

CodeInBounds ==
    /\ get_range(regions, "Code") # <<>>
    /\ FirstCode[1] <= FirstCode[2]
    /\ FirstCode[2] <= Size(memory)

InRun == state \in {"Fetching", "Decoding", "Executing"}

RunReturned == state = "Halted" /\ op \in {"decode", "execute", "finish"}

RunReturnedError == RunReturned /\ ~ret.ok

(***************************************************************************)
(* C1: a mov with modifier 0x0 and register_from # 0 fails with the        *)
(* reserved-byte error and leaves the four general-purpose registers and   *)
(* the program counter as they were, whatever register_to and data are.    *)
(* The code writes the register first and does not look at register_from   *)
(* when register_to is out of range, so this is violated.                  *)
(***************************************************************************)
C1_ReservedByteLeavesRegisters ==
    (Executed /\ IsMov(arg) /\ arg.modifier = 0 /\ arg.register_from # 0)
        => /\ ErrorKind(ret) = "non-zero value for unusable byte"
           /\ RegistersKept

(***************************************************************************)
(* C2: run is fail-fast: when run returns an error the registers are those *)
(* the last successful instruction left, the failing instruction having    *)
(* changed none. Violated through the register write of C1.                *)
(***************************************************************************)
C2_RunFailFast == RunReturnedError => RegistersKept

(***************************************************************************)
(* C3: main's scenario. Memory of 1504 bytes, Code [0, 501), Data          *)
(* [501, 1504), one append of (1, 0, 0, 1, 1337), then run: exactly one    *)
(* instruction executes (r2 = 1337, rip = 8), the second step fails with   *)
(* invalid mnemonic 0x0 at address 8, and run ends with r2 = 1337 and the  *)
(* other general-purpose registers 0.                                      *)
(***************************************************************************)
MainScenario ==
    /\ Size(memory) = 1504
    /\ regions = << <<"Code", 0, 501>>, <<"Data", 501, 1504>> >>
    /\ appended = <<MainInstruction>>
    /\ runs = 1
    /\ InRun \/ state \in {"Halted", "Aborted"}

AfterMainInstruction ==
    registers = [r1 |-> 0, r2 |-> 1337, r3 |-> 0, r4 |-> 0, rip |-> 8]

C3_EndToEnd ==
    MainScenario =>
        /\ state # "Aborted"
        /\ nexec <= 1
        /\ nexec = 0 => registers = Registers_default
        /\ nexec = 1 => AfterMainInstruction
        /\ state = "Halted" =>
              /\ nexec = 1
              /\ ret = Err(<<"invalid mnemonic", 0, 8>>)

C3_Witness ==
    MainScenario /\ state = "Halted" /\ registers.r2 = 1337 /\ ~ret.ok

(***************************************************************************)
(* C4: every run of a CPU whose first Code region [start, end) lies within *)
(* memory makes at most ceil((end - start) / 8) steps and returns Ok, the  *)
(* bound being exhausted, or an error; it never ends abruptly. Violated:   *)
(* fetch slices memory[rip .. rip + 8] and panics past the end of memory.  *)
(***************************************************************************)
C4_RunAlwaysHalts ==
    (CodeInBounds /\ op \in {"run", "fetch", "decode", "execute", "finish"})
        => /\ state # "Aborted"
           /\ nexec <= step_count(FirstCode[1], FirstCode[2])
           /\ (RunReturned /\ ret.ok)
                 => nexec = step_count(FirstCode[1], FirstCode[2])

(***************************************************************************)
(* C5: a mov with modifier 0x0, register_from = 0 and register_to in 0..3  *)
(* succeeds for every data and sets that register to data read as a signed *)
(* 32-bit integer; the other three registers, the program counter, the     *)
(* flags and memory stay as they were.                                     *)
(***************************************************************************)
C5_MovSuccess ==
    (Executed /\ IsMov(arg) /\ arg.modifier = 0 /\ arg.register_from = 0
              /\ arg.register_to \in 0..3 /\ state = "Idle")
        => /\ ret = Ok
           /\ registers =
                 [r1  |-> IF arg.register_to = 0 THEN Signed(arg.data)
                          ELSE pre.registers.r1,
                  r2  |-> IF arg.register_to = 1 THEN Signed(arg.data)
                          ELSE pre.registers.r2,
                  r3  |-> IF arg.register_to = 2 THEN Signed(arg.data)
                          ELSE pre.registers.r3,
                  r4  |-> IF arg.register_to = 3 THEN Signed(arg.data)
                          ELSE pre.registers.r4,
                  rip |-> pre.registers.rip]
           /\ flags = pre.flags
           /\ memory = pre.memory

C5_Witness ==
    /\ Executed /\ IsMov(arg) /\ arg.modifier = 0 /\ arg.register_from = 0
    /\ arg.register_to = 2 /\ arg.data = U32(32768, 0)
    /\ registers.r3 < 0 /\ pre.registers.r1 = 1337 /\ ret = Ok

(***************************************************************************)
(* C6: a mov with modifier 0x0 and register_to outside 0..3 fails with the *)
(* invalid-register error, whatever register_from and data are, and leaves *)
(* the four general-purpose registers and the program counter unchanged.   *)
(***************************************************************************)
C6_MovRegisterBound ==
    (Executed /\ IsMov(arg) /\ arg.modifier = 0 /\ arg.register_to \notin 0..3)
        => /\ ErrorKind(ret) = "invalid register"
           /\ ret.msg[2] = arg.register_to
           /\ RegistersKept

C6_Witness ==
    /\ Executed /\ IsMov(arg) /\ arg.modifier = 0 /\ arg.register_to = 4
    /\ arg.register_from # 0 /\ pre.registers.r4 # 0
    /\ ErrorKind(ret) = "invalid register"

(***************************************************************************)
(* C7: an instruction whose mnemonic is not 0x1 fails with the             *)
(* invalid-mnemonic error carrying that mnemonic and the program counter   *)
(* (the address it was fetched from), whatever its other fields, and       *)
(* changes no register, flag or memory byte.                               *)
(***************************************************************************)
C7_UnknownMnemonic ==
    (Executed /\ ~IsMov(arg))
        => /\ ret = Err(<<"invalid mnemonic", arg.mnemonic, pre.registers.rip>>)
           /\ RegistersKept
           /\ flags = pre.flags
           /\ memory = pre.memory

C7_Witness ==
    /\ Executed /\ arg.mnemonic = 2 /\ arg.register_to = 4
    /\ pre.registers.rip = 8 /\ state = "Halted"
    /\ ErrorKind(ret) = "invalid mnemonic"

(***************************************************************************)
(* C8: a mov with a modifier other than 0x0 fails with the                 *)
(* invalid-modifier error whatever register_from, register_to and data     *)
(* are (the modifier is checked before them) and changes no register.      *)
(***************************************************************************)
C8_MovModifier ==
    (Executed /\ IsMov(arg) /\ arg.modifier # 0)
        => /\ ErrorKind(ret) = "invalid modifier"
           /\ ret.msg[2] = arg.modifier
           /\ RegistersKept

C8_Witness ==
    /\ Executed /\ IsMov(arg) /\ arg.modifier = 1 /\ arg.register_to = 255
    /\ arg.register_from = 255 /\ ErrorKind(ret) = "invalid modifier"

(***************************************************************************)
(* C9: encode and decode are inverse to each other on 8-byte instructions: *)
(* parsing eight bytes and encoding the result gives the eight bytes back, *)
(* encoding a field tuple and parsing the result gives the tuple back, and *)
(* bytes 0..3 carry mnemonic, modifier, register_from and register_to,     *)
(* bytes 4..7 carry data big-endian.                                       *)
(***************************************************************************)
C9_RoundTrip ==
    /\ (op = "parse" /\ Len(arg) = 8)
          => /\ ret # None
             /\ as_bytes(ret[1]) = arg
             /\ ret[1].mnemonic = arg[1]
             /\ ret[1].modifier = arg[2]
             /\ ret[1].register_from = arg[3]
             /\ ret[1].register_to = arg[4]
             /\ ret[1].data = U32(arg[5] * 256 + arg[6], arg[7] * 256 + arg[8])
    /\ op = "as_bytes"
          => /\ Len(ret) = 8
             /\ parse(ret) = Some(arg)
             /\ ret[1] = arg.mnemonic
             /\ ret[2] = arg.modifier
             /\ ret[3] = arg.register_from
             /\ ret[4] = arg.register_to
             /\ ret[5] * 256 + ret[6] = arg.data.hi
             /\ ret[7] * 256 + ret[8] = arg.data.lo

C9_Witness ==
    /\ op = "as_bytes"
    /\ arg = Instruction_new(1, 0, 255, 1, U32(258, 772))
    /\ ret = <<1, 0, 255, 1, 1, 2, 3, 4>>

(***************************************************************************)
(* C10: decode succeeds exactly when its input is eight bytes long: any    *)
(* other length fails, and eight bytes decode whatever their values (all   *)
(* zeros, unknown mnemonics).                                              *)
(***************************************************************************)
C10_LengthGuard ==
    (op \in {"parse", "decode"}) => (ret # None <=> Len(arg) = 8)

C10_Witness ==
    op = "decode" /\ Len(arg) = 4 /\ ret = None

(***************************************************************************)
(* C11: get_range(kind) returns exactly the (start, end) pairs of the      *)
(* regions declared with that kind, in declaration order and with          *)
(* multiplicity, none of the other kind, and the empty list when no region *)
(* has the kind.                                                           *)
(***************************************************************************)
Matching(kind) == {i \in 1..Len(regions) : regions[i][1] = kind}

\* the index in regions of the j-th region of the kind
NthMatching(kind, j) ==
    CHOOSE i \in Matching(kind) :
        Cardinality({k \in Matching(kind) : k < i}) = j - 1

C11_RegionFilter ==
    op = "get_range" =>
        /\ Len(ret) = Cardinality(Matching(arg))
        /\ \A j \in 1..Len(ret) :
              ret[j] = <<regions[NthMatching(arg, j)][2],
                         regions[NthMatching(arg, j)][3]>>
        /\ Matching(arg) = {} => ret = <<>>

C11_Witness ==
    /\ op = "get_range" /\ arg = "Code"
    /\ regions = << <<"Code", 8, 16>>, <<"Data", 0, 16>>, <<"Code", 0, 8>> >>
    /\ ret = << <<8, 16>>, <<0, 8>> >>

(***************************************************************************)
(* The slots of the first Code region as append saw them: the addresses    *)
(* start + 8j below end, and those among them whose first byte was 0.      *)
(***************************************************************************)
Appended == op = "append"

HasCode == \E i \in 1..Len(regions) : regions[i][1] = "Code"

Slots ==
    {a \in FirstCode[1]..(FirstCode[2] - 1) : (a - FirstCode[1]) % STEP = 0}

FreeSlots == {a \in Slots : a < Size(pre.memory) /\ pre.memory[a] = 0}

TakenSlots == {a \in Slots : a < Size(pre.memory) /\ pre.memory[a] # 0}

Lowest(S) == CHOOSE a \in S : \A b \in S : a <= b

(***************************************************************************)
(* C12: when the first Code region has a slot whose first byte is 0,       *)
(* append writes the eight encoded bytes at the lowest such slot and       *)
(* changes no other memory byte, no register and no flag. Violated: a free *)
(* slot less than eight bytes from the end of memory takes the bytes that  *)
(* fit and the next index panics.                                          *)
(***************************************************************************)
C12_AppendWritesLowestFree ==
    (Appended /\ HasCode /\ FreeSlots # {}) =>
        LET a == Lowest(FreeSlots)
            enc == as_bytes(arg)
        IN  /\ state # "Aborted"
            /\ ret = Ok
            /\ a + STEP <= Size(memory)
            /\ memory = [x \in DOMAIN pre.memory |->
                            IF x >= a /\ x < a + STEP THEN enc[x - a + 1]
                            ELSE pre.memory[x]]
            /\ registers = pre.registers
            /\ flags = pre.flags

(***************************************************************************)
(* C13: when every slot of the first Code region has a nonzero first byte, *)
(* append returns normally, signals nothing and leaves memory, registers   *)
(* and flags as they were.                                                 *)
(***************************************************************************)
C13_AppendFullIsNoOp ==
    (Appended /\ HasCode /\ TakenSlots = Slots) =>
        /\ state = "Idle"
        /\ ret = Ok
        /\ memory = pre.memory
        /\ registers = pre.registers
        /\ flags = pre.flags

C13_Witness ==
    /\ Appended /\ HasCode /\ Slots # {} /\ TakenSlots = Slots
    /\ arg.mnemonic # 0
    /\ memory = pre.memory /\ ret = Ok /\ state = "Idle"

(***************************************************************************)
(* C14, as claimed: append ends abruptly, writing no byte, both when no    *)
(* region is Code and when the first Code region has start = end.          *)
(* Violated: with start = end the loop has no iteration and append         *)
(* returns.                                                                *)
(***************************************************************************)
C14_AppendFailsHardEmptyOrAbsent ==
    (Appended /\ (~HasCode \/ FirstCode[1] = FirstCode[2])) =>
        /\ state = "Aborted"
        /\ memory = pre.memory

(***************************************************************************)
(* C14, amended: append ends abruptly, writing no byte, whenever no region *)
(* is Code (the default single Data region included); when the first Code  *)
(* region has start = end it returns normally and writes no byte.          *)
(***************************************************************************)
C14_AppendFailsHardAbsent ==
    /\ (Appended /\ ~HasCode) =>
          /\ state = "Aborted"
          /\ memory = pre.memory
    /\ (Appended /\ HasCode /\ FirstCode[1] = FirstCode[2]) =>
          /\ state = "Idle"
          /\ ret = Ok
          /\ memory = pre.memory

C14_Witness ==
    /\ Appended /\ regions = << <<"Data", 0, 16>> >>
    /\ state = "Aborted" /\ memory = pre.memory

(***************************************************************************)
(* C15: in the run of a freshly constructed CPU the program counter is 8   *)
(* times the number of instructions executed successfully so far: a        *)
(* successful execute advances it by 8, a failing one leaves it; each      *)
(* fetch reads memory[pc .. pc + 8); and when run returns Ok the program   *)
(* counter is 8 * ceil((end - start) / 8) for the first Code region.       *)
(***************************************************************************)
InFirstRun ==
    runs = 1 /\ op \in {"run", "fetch", "decode", "execute", "finish"}

CeilSteps(start, end) == IF end <= start THEN 0 ELSE (end - start + 7) \div 8

C15_ProgramCounter ==
    InFirstRun =>
        /\ registers.rip = 8 * nexec
        /\ (op = "fetch" /\ state = "Decoding") =>
              /\ arg = registers.rip
              /\ bytes = [k \in 1..8 |-> memory[registers.rip + k - 1]]
        /\ (op = "execute" /\ state = "Fetching") =>
              registers.rip = pre.registers.rip + 8
        /\ (op = "execute" /\ state = "Halted") =>
              registers.rip = pre.registers.rip
        /\ (RunReturned /\ ret.ok) =>
              registers.rip = 8 * CeilSteps(FirstCode[1], FirstCode[2])

C15_Witness ==
    /\ InFirstRun /\ RunReturned /\ ret.ok
    /\ nexec = 2 /\ registers.rip = 16

(***************************************************************************)
(* C16: the three flags (zero, overflow, trap) are false in every          *)
(* reachable state: false after construction, and changed by no append,    *)
(* fetch, decode, execute or run, whether it succeeds or fails.            *)
(***************************************************************************)
C16_FlagsStayFalse == flags = [zf |-> FALSE, of |-> FALSE, tf |-> FALSE]

C16_Witness ==
    /\ C16_FlagsStayFalse
    /\ RunReturnedError /\ nexec >= 1 /\ Len(appended) = 2
    /\ registers.r2 = 1337

(***************************************************************************)
(* C17: run executes the appended program in append order: on a freshly    *)
(* constructed CPU whose first Code region lies within memory, after k     *)
(* appends of instructions with nonzero mnemonic (k at most the number of  *)
(* slots), the i-th instruction run decodes and executes is the i-th one   *)
(* appended. Violated: run fetches from program counter 0, append writes   *)
(* from the start of the Code region, and the two differ when start # 0.   *)
(***************************************************************************)
C17_RunsAppendedProgram ==
    (/\ CodeInBounds
     /\ runs = 1
     /\ state = "Executing"
     /\ \A i \in 1..Len(appended) : appended[i].mnemonic # 0
     /\ Len(appended) <= CeilSteps(FirstCode[1], FirstCode[2])
     /\ nexec < Len(appended))
        => instr = Some(appended[nexec + 1])

(***************************************************************************)
(* C18: append writes only inside the Code region: when every region lies  *)
(* within memory, each byte an append changes has its address in           *)
(* [start, end) of the first Code region. Violated: the last slot of a     *)
(* region whose length is no multiple of 8 reaches past its end.           *)
(***************************************************************************)
RegionsInBounds ==
    \A i \in 1..Len(regions) :
        regions[i][2] <= regions[i][3] /\ regions[i][3] <= Size(memory)

Changed == {x \in DOMAIN memory : memory[x] # pre.memory[x]}

C18_AppendStaysInCode ==
    (Appended /\ RegionsInBounds /\ Changed # {}) =>
        /\ HasCode
        /\ LET first == FirstCode
           IN  \A x \in Changed : first[1] <= x /\ x < first[2]

(***************************************************************************)
(* C19: append never overwrites an earlier instruction: the eight bytes    *)
(* one append wrote are still there after every later append, whatever the *)
(* instruction, mnemonic byte 0 included. Violated: a slot holding an      *)
(* instruction whose mnemonic is 0 still counts as free.                   *)
(***************************************************************************)
Holds(mem, a, enc) == \A k \in 1..STEP : mem[a + k - 1] = enc[k]

C19_AppendKeepsEarlier ==
    (Appended /\ HasCode) =>
        LET slots == {a \in Slots : a + STEP <= Size(memory)}
        IN  \A j \in 1..(Len(appended) - 1) :
                LET enc == as_bytes(appended[j])
                IN  \A a \in slots :
                        Holds(pre.memory, a, enc) => Holds(memory, a, enc)

(***************************************************************************)
(* C20: inside run the decode step never fails: every fetch that returns   *)
(* gives exactly eight bytes, so run never returns the decode error, and   *)
(* every error it returns is an execute error: invalid mnemonic, invalid   *)
(* modifier, invalid register or the reserved-byte violation.              *)
(***************************************************************************)
ExecuteErrors ==
    {"invalid mnemonic", "invalid modifier", "invalid register",
     "non-zero value for unusable byte"}

C20_DecodeNeverFailsInRun ==
    /\ (op = "fetch" /\ state = "Decoding") => Len(bytes) = 8
    /\ op = "decode" => (state = "Executing" /\ instr # None)
    /\ RunReturnedError =>
          /\ op = "execute"
          /\ ErrorKind(ret) \in ExecuteErrors
          /\ ErrorKind(ret) # "instruction couldn't be decoded"

C20_Witness ==
    /\ RunReturnedError /\ ErrorKind(ret) = "invalid register"
    /\ Len(bytes) = 8 /\ instr # None

====
